---- MODULE Spec2Model ----
(***************************************************************************)
(* The encryption-key-manager resource of the Auth0 Terraform provider:    *)
(* the bounded polling wait (wait.Until) and the three remote flows that   *)
(* use it (removeKey, importWrappedKey, createRootKey), run against a      *)
(* remote key store whose keys change state asynchronously.                *)
(***************************************************************************)
EXTENDS Integers, Sequences, FiniteSets, TLC

\* ---------------------------------------------------------------- bounds
\* Number of key ids the remote system can hand out.
MaxKeys == 2
\* Handler calls (create, update, refresh, destroy) followed from the start.
MaxApplies == 4
\* Largest maxAttempts a direct waitUntil call is given.
MaxAttemptsIn == 5
\* The attempts the flows' waits are run with. The source passes 100
\* (wait.Until(100, 20, ...)); no flow reads the number, so the model runs the
\* same loop with a budget small enough to enumerate.
FlowMaxAttempts == 3

\* ------------------------------------------------------ program constants
\* wait.Until(100, 20, ...): the interval every flow passes.
UntilIntervalMillis == 20

\* ---------------------------------------------------------------- values
KeyIds == 1..MaxKeys
NoKey == 0

Nil == "nil"
ErrTimeout == "timeout"
ErrNotFound == "notfound"
ErrOther == "other"
Running == "running"

ProbeErrors == {ErrNotFound, ErrOther}

\* States a read can report, and the remote's own bookkeeping states:
\* "none" (id never issued), "creating" (created, not yet visible to reads),
\* "gone" (destroyed and purged; reads answer not-found).
ReportedStates == {"pre-activation", "active", "deactivated", "destroyed"}
KeyStates == ReportedStates \cup {"none", "creating", "gone"}
Pending == {"", "activate", "destroy"}

VARIABLES
    keys,      \* remote: state of every key id
    pend,      \* remote: accepted, not yet applied mutation per key id
    op,        \* the operation in progress (or last finished)
    pc,        \* its position: idle, mutate, probe, sleep, fetch, done
    kid,       \* the key id the operation works on
    w,         \* the running waitUntil call
    ret,       \* the operation's returned error (Running until it returns)
    retKey,    \* createRootKey: the returned key's id (NoKey for nil)
    retWrap,   \* createRootKey: whether a wrapping key is returned
    mut,       \* remote mutation calls of this operation
    reads,     \* probe reads of this operation
    fetch,     \* CreatePublicWrappingKey calls of this operation
    h          \* what the check function returned during this wait

\* The resource handlers (create, update, read, delete of
\* auth0_encryption_key_manager) and what Terraform keeps for them.
VARIABLES
    st,        \* the resource state Terraform has saved
    cfg,       \* the configuration of the apply in progress
    d,         \* the handler's ResourceData: the plan merged with what it Set
    in,        \* what the handler read from its ResourceData on entry
    hop,       \* the handler in progress (or last finished)
    hpc,       \* its position
    herr,      \* the handler's returned error (Running until it returns)
    calls,     \* the remote calls of this handler, in order (probe reads left out)
    page,      \* readEncryptionKeyManager: the page to request next
    acc,       \* readEncryptionKeyManager: encryptionKeys collected so far
    created,   \* key ids the remote created for this handler call
    imported,  \* key ids an ImportWrappedKey call was accepted for
    ds,        \* the framework provider's data source read by a plan
    applies,   \* handler calls of the resource so far
    listed     \* readEncryptionKeyManager: the answers to its List calls

hvars == <<st, cfg, d, in, hop, hpc, herr, calls, page, acc, created, imported,
           ds, applies, listed>>

vars == <<keys, pend, op, pc, kid, w, ret, retKey, retWrap, mut, reads, fetch, h,
          st, cfg, d, in, hop, hpc, herr, calls, page, acc, created, imported, ds,
          applies, listed>>

\* key_rotation_id values: 0 stands for the empty string (attribute unset).
NoRotation == 0
RotationIds == {NoRotation, 1, 2}

NoState ==
    [exists |-> FALSE, tainted |-> FALSE, rot |-> NoRotation, count |-> 0,
     key_id |-> NoKey, kstate |-> "", pwk |-> NoKey, wrapped |-> FALSE]
NoConfig == [rot |-> NoRotation, block |-> FALSE, wrapped |-> FALSE]
NoData ==
    [rot |-> NoRotation, count |-> 0, key_id |-> NoKey, kstate |-> "",
     pwk |-> NoKey, wrapped |-> FALSE, encryption_keys |-> <<>>,
     keysSet |-> FALSE, rootSetByRead |-> FALSE, rootSetByUpdate |-> FALSE]
NoInput ==
    [isNew |-> FALSE, rotChanged |-> FALSE, blockChanged |-> FALSE,
     oldCount |-> 0, newCount |-> 0, rootKeyID |-> NoKey, rootKeyState |-> "",
     publicWrappingKey |-> NoKey, blockPresent |-> FALSE, wrappedKey |-> FALSE,
     keyRotationID |-> NoRotation]

HInit ==
    /\ st = NoState
    /\ cfg = NoConfig
    /\ d = NoData
    /\ in = NoInput
    /\ hop = "none"
    /\ hpc = "idle"
    /\ herr = Nil
    /\ calls = <<>>
    /\ page = 0
    /\ acc = <<>>
    /\ created = {}
    /\ imported = {}
    /\ ds = [read |-> "none", provider_version |-> ""]
    /\ applies = 0
    /\ listed = <<>>

\* ------------------------------------------------------------ the remote
\* Read(ctx, keyID): a failure of the call itself, not-found for a key that
\* is not (or no longer, or not yet) visible, otherwise the key as it is.
ReadResults(k) ==
    {[err |-> ErrOther, state |-> ""]}
    \cup (IF k = NoKey \/ keys[k] \in {"none", "creating", "gone"}
          THEN {[err |-> ErrNotFound, state |-> ""]}
          ELSE {[err |-> Nil, state |-> keys[k]]})

\* Delete(ctx, keyID).
DeleteResults(k) ==
    {ErrOther}
    \cup (IF k = NoKey \/ keys[k] \in {"none", "creating", "gone"}
          THEN {ErrNotFound} ELSE {Nil})

\* ImportWrappedKey(ctx, key): accepted only for a key awaiting its material.
ImportResults(k) ==
    {ErrOther}
    \cup (IF k = NoKey \/ keys[k] \in {"none", "creating", "gone"}
          THEN {ErrNotFound}
          ELSE IF keys[k] = "pre-activation" THEN {Nil} ELSE {})

FreeIds == {k \in KeyIds : keys[k] = "none"}

\* Create(ctx, key): the id the remote assigns (NoKey when it refuses).
CreateResults ==
    {[err |-> ErrOther, id |-> NoKey]}
    \cup (IF FreeIds = {} THEN {}
          ELSE {[err |-> Nil, id |-> CHOOSE k \in FreeIds : \A j \in FreeIds : k <= j]})

\* CreatePublicWrappingKey(ctx, kid).
WrappingKeyResults(k) ==
    {ErrOther}
    \cup (IF k = NoKey \/ keys[k] \in {"none", "creating", "gone"}
          THEN {ErrNotFound} ELSE {Nil})

\* ------------------------------------------------------------ waitUntil
\* waitUntil(maxAttempts, intervalMillis, check): a bounded loop that keeps
\* nothing between calls.
NoWait == [max |-> 0, interval |-> 0, calls |-> 0, sleeps |-> 0, result |-> Running]

\* Variant: the counters of the previous call survive into the next one.
waitUntilInitKeep(maxAttempts, intervalMillis) ==
    [w EXCEPT !.max = maxAttempts, !.interval = intervalMillis,
              !.result = Running]

\* A call starts a fresh loop.
waitUntilInit(maxAttempts, intervalMillis) ==
    [max |-> maxAttempts, interval |-> intervalMillis,
     calls |-> 0, sleeps |-> 0, result |-> Running]

\* Variant: an error from check counts as not yet.
waitUntilSwallow(ws, c) ==
    LET n == ws.calls + 1 IN
    IF c.done /\ c.err = Nil THEN [ws EXCEPT !.calls = n, !.result = Nil]
    ELSE IF n >= ws.max THEN [ws EXCEPT !.calls = n, !.result = ErrTimeout]
    ELSE [ws EXCEPT !.calls = n]

\* Variant: one attempt more than the budget.
waitUntilOneMore(ws, c) ==
    LET n == ws.calls + 1 IN
    IF c.err # Nil THEN [ws EXCEPT !.calls = n, !.result = c.err]
    ELSE IF c.done THEN [ws EXCEPT !.calls = n, !.result = Nil]
    ELSE IF n > ws.max THEN [ws EXCEPT !.calls = n, !.result = ErrTimeout]
    ELSE [ws EXCEPT !.calls = n]

\* Variant: gives up one attempt before the budget is spent.
waitUntilEarly(ws, c) ==
    LET n == ws.calls + 1 IN
    IF c.err # Nil THEN [ws EXCEPT !.calls = n, !.result = c.err]
    ELSE IF c.done THEN [ws EXCEPT !.calls = n, !.result = Nil]
    ELSE IF n >= ws.max - 1 THEN [ws EXCEPT !.calls = n, !.result = ErrTimeout]
    ELSE [ws EXCEPT !.calls = n]

\* One invocation of check, which returned c = [done, err]: an error aborts
\* with that error, done=true succeeds, the last allowed attempt times out,
\* otherwise the loop goes on (result stays Running and a sleep follows).
waitUntilStep(ws, c) ==
    LET n == ws.calls + 1 IN
    IF c.err # Nil THEN [ws EXCEPT !.calls = n, !.result = c.err]
    ELSE IF c.done THEN [ws EXCEPT !.calls = n, !.result = Nil]
    ELSE IF n >= ws.max THEN [ws EXCEPT !.calls = n, !.result = ErrTimeout]
    ELSE [ws EXCEPT !.calls = n]

\* The sleep of intervalMillis between two invocations of check.
waitUntilSleep(ws) == [ws EXCEPT !.sleeps = @ + 1]

\* What a check function may return to a direct waitUntil call.
CheckResults ==
    [done : BOOLEAN, err : {Nil}] \cup [done : BOOLEAN, err : ProbeErrors]

\* ------------------------------------------------- the flows' check closures
\* IsStatusNotFound(err): true of the remote's 404 only.
IsStatusNotFound(err) == err = ErrNotFound

\* Variant: a failed read counts as not yet.
removeKeyCheckSwallow(r) ==
    IF r.err # Nil THEN [done |-> FALSE, err |-> Nil]
    ELSE [done |-> r.state = "destroyed", err |-> Nil]

\* removeKey's closure: a read error is returned, done when destroyed.
removeKeyCheck(r) ==
    IF r.err # Nil THEN [done |-> FALSE, err |-> r.err]
    ELSE [done |-> r.state = "destroyed", err |-> Nil]

\* Variant: done as soon as the key can be read.
importWrappedKeyCheckAnyRead(r) ==
    IF r.err # Nil THEN [done |-> FALSE, err |-> r.err]
    ELSE [done |-> TRUE, err |-> Nil]

\* importWrappedKey's closure: a read error is returned, done when active.
importWrappedKeyCheck(r) ==
    IF r.err # Nil THEN [done |-> FALSE, err |-> r.err]
    ELSE [done |-> r.state = "active", err |-> Nil]

\* Variant: every read error is returned, not-found included.
createRootKeyCheckNoClassify(r) ==
    IF r.err # Nil THEN [done |-> FALSE, err |-> r.err]
    ELSE [done |-> TRUE, err |-> Nil]

\* createRootKey's closure: not-found is not-yet, any other read error is
\* returned, a read that succeeds is done.
createRootKeyCheck(r) ==
    IF r.err # Nil
    THEN IF IsStatusNotFound(r.err) THEN [done |-> FALSE, err |-> Nil]
         ELSE [done |-> FALSE, err |-> r.err]
    ELSE [done |-> TRUE, err |-> Nil]

\* ------------------------------------------- the flows' control decisions
\* Variant: the wait starts whatever Delete returned.
removeKeyAfterDeleteIgnoreErr(err) == [pc |-> "probe", ret |-> Running]

\* Where a flow goes after its remote mutation returned err: back to the
\* caller with the error, or on to the wait.
removeKeyAfterDelete(err) ==
    IF err # Nil THEN [pc |-> "done", ret |-> err]
    ELSE [pc |-> "probe", ret |-> Running]

importWrappedKeyAfterImport(err) ==
    IF err # Nil THEN [pc |-> "done", ret |-> err]
    ELSE [pc |-> "probe", ret |-> Running]

createRootKeyAfterCreate(err) ==
    IF err # Nil THEN [pc |-> "done", ret |-> err]
    ELSE [pc |-> "probe", ret |-> Running]

\* Variant: the wrapping key is fetched whatever the wait returned.
createRootKeyAfterWaitIgnoreErr(err) == [pc |-> "fetch", ret |-> Running]

\* Where createRootKey goes after the wait returned err.
createRootKeyAfterWait(err) ==
    IF err # Nil THEN [pc |-> "done", ret |-> err]
    ELSE [pc |-> "fetch", ret |-> Running]

\* ---------------------------------------------------------------- ghosts
NoMut == [n |-> 0, err |-> Nil, atReads |-> 0]
NoReads == [n |-> 0, notFound |-> 0, active |-> FALSE, destroyed |-> FALSE,
            lastErr |-> Nil, lastState |-> ""]
NoFetch == [n |-> 0, err |-> Nil, atWait |-> Running]
NoHist == [errAt |-> 0, errVal |-> Nil, trueAt |-> 0, nFalse |-> 0]

\* The check function returned c on invocation number n.
Recorded(c, n) ==
    IF c.err # Nil
    THEN [h EXCEPT !.errAt = IF @ = 0 THEN n ELSE @,
                   !.errVal = IF h.errAt = 0 THEN c.err ELSE @]
    ELSE IF c.done THEN [h EXCEPT !.trueAt = IF @ = 0 THEN n ELSE @]
    ELSE [h EXCEPT !.nFalse = @ + 1]

\* A probe read returned r.
ReadRecorded(r) ==
    [n |-> reads.n + 1,
     notFound |-> reads.notFound + (IF r.err = ErrNotFound THEN 1 ELSE 0),
     active |-> reads.active \/ (r.err = Nil /\ r.state = "active"),
     destroyed |-> reads.destroyed \/ (r.err = Nil /\ r.state = "destroyed"),
     lastErr |-> r.err,
     lastState |-> r.state]

\* ------------------------------------------------------------------ Init
Init ==
    /\ keys = [k \in KeyIds |-> "none"]
    /\ pend = [k \in KeyIds |-> ""]
    /\ op = "none"
    /\ pc = "idle"
    /\ kid = NoKey
    /\ w = NoWait
    /\ ret = Nil
    /\ retKey = NoKey
    /\ retWrap = FALSE
    /\ mut = NoMut
    /\ reads = NoReads
    /\ fetch = NoFetch
    /\ h = NoHist
    /\ HInit

Idle == pc \in {"idle", "done"}

\* A new operation starts with nothing left of the previous one.
Fresh(o, k, p) ==
    /\ op' = o
    /\ kid' = k
    /\ pc' = p
    /\ ret' = Running
    /\ retKey' = NoKey
    /\ retWrap' = FALSE
    /\ mut' = NoMut
    /\ reads' = NoReads
    /\ fetch' = NoFetch
    /\ h' = NoHist

\* -------------------------------------------------- direct waitUntil call
\* A caller invokes waitUntil with a budget and a probe of its own.
waitUntilCall ==
    /\ Idle
    /\ \E m \in 1..MaxAttemptsIn, i \in {0, 10} :
         w' = waitUntilInit(m, i)
    /\ Fresh("waitUntil", NoKey, "probe")
    /\ UNCHANGED <<keys, pend>>
    /\ UNCHANGED hvars

\* The wait invokes check, which returns any of its possible results.
waitUntilProbe ==
    /\ op = "waitUntil" /\ pc = "probe"
    /\ \E c \in CheckResults :
         LET ws == waitUntilStep(w, c) IN
         /\ w' = ws
         /\ h' = Recorded(c, w.calls + 1)
         /\ pc' = IF ws.result = Running THEN "sleep" ELSE "done"
         /\ ret' = ws.result
    /\ UNCHANGED <<keys, pend, op, kid, retKey, retWrap, mut, reads, fetch>>
    /\ UNCHANGED hvars

\* The sleep between two attempts, in any operation that waits.
Sleep ==
    /\ pc = "sleep"
    /\ w' = waitUntilSleep(w)
    /\ pc' = "probe"
    /\ UNCHANGED <<keys, pend, op, kid, ret, retKey, retWrap, mut, reads, fetch, h>>
    /\ UNCHANGED hvars

\* -------------------------------------------------------------- removeKey
removeKeyCall ==
    /\ Idle
    /\ \E k \in KeyIds : Fresh("removeKey", k, "mutate")
    /\ w' = NoWait
    /\ UNCHANGED <<keys, pend>>
    /\ UNCHANGED hvars

\* api.EncryptionKey.Delete, then either return its error or start the wait.
removeKeyDelete ==
    /\ op = "removeKey" /\ pc = "mutate"
    /\ \E e \in DeleteResults(kid) :
         LET next == removeKeyAfterDelete(e) IN
         /\ pend' = IF e = Nil THEN [pend EXCEPT ![kid] = "destroy"] ELSE pend
         /\ mut' = [n |-> mut.n + 1, err |-> e, atReads |-> reads.n]
         /\ pc' = next.pc
         /\ ret' = next.ret
         /\ w' = IF next.pc = "probe"
                 THEN waitUntilInit(FlowMaxAttempts, UntilIntervalMillis) ELSE w
    /\ UNCHANGED <<keys, op, kid, retKey, retWrap, reads, fetch, h>>
    /\ UNCHANGED hvars

\* One attempt of removeKey's wait: read the key, apply the closure.
removeKeyProbe ==
    /\ op = "removeKey" /\ pc = "probe"
    /\ \E r \in ReadResults(kid) :
         LET c == removeKeyCheck(r)
             ws == waitUntilStep(w, c) IN
         /\ w' = ws
         /\ h' = Recorded(c, w.calls + 1)
         /\ reads' = ReadRecorded(r)
         /\ pc' = IF ws.result = Running THEN "sleep" ELSE "done"
         /\ ret' = ws.result
    /\ UNCHANGED <<keys, pend, op, kid, retKey, retWrap, mut, fetch>>
    /\ UNCHANGED hvars

\* ------------------------------------------------------- importWrappedKey
importWrappedKeyCall ==
    /\ Idle
    /\ \E k \in KeyIds : Fresh("importWrappedKey", k, "mutate")
    /\ w' = NoWait
    /\ UNCHANGED <<keys, pend>>
    /\ UNCHANGED hvars

importWrappedKeyImport ==
    /\ op = "importWrappedKey" /\ pc = "mutate"
    /\ \E e \in ImportResults(kid) :
         LET next == importWrappedKeyAfterImport(e) IN
         /\ pend' = IF e = Nil THEN [pend EXCEPT ![kid] = "activate"] ELSE pend
         /\ mut' = [n |-> mut.n + 1, err |-> e, atReads |-> reads.n]
         /\ pc' = next.pc
         /\ ret' = next.ret
         /\ w' = IF next.pc = "probe"
                 THEN waitUntilInit(FlowMaxAttempts, UntilIntervalMillis) ELSE w
    /\ UNCHANGED <<keys, op, kid, retKey, retWrap, reads, fetch, h>>
    /\ UNCHANGED hvars

importWrappedKeyProbe ==
    /\ op = "importWrappedKey" /\ pc = "probe"
    /\ \E r \in ReadResults(kid) :
         LET c == importWrappedKeyCheck(r)
             ws == waitUntilStep(w, c) IN
         /\ w' = ws
         /\ h' = Recorded(c, w.calls + 1)
         /\ reads' = ReadRecorded(r)
         /\ pc' = IF ws.result = Running THEN "sleep" ELSE "done"
         /\ ret' = ws.result
    /\ UNCHANGED <<keys, pend, op, kid, retKey, retWrap, mut, fetch>>
    /\ UNCHANGED hvars

\* ---------------------------------------------------------- createRootKey
createRootKeyCall ==
    /\ Idle
    /\ Fresh("createRootKey", NoKey, "mutate")
    /\ w' = NoWait
    /\ UNCHANGED <<keys, pend>>
    /\ UNCHANGED hvars

\* api.EncryptionKey.Create fills in the new key's id.
createRootKeyCreate ==
    /\ op = "createRootKey" /\ pc = "mutate"
    /\ \E c \in CreateResults :
         LET next == createRootKeyAfterCreate(c.err) IN
         /\ keys' = IF c.err = Nil THEN [keys EXCEPT ![c.id] = "creating"] ELSE keys
         /\ kid' = c.id
         /\ mut' = [n |-> mut.n + 1, err |-> c.err, atReads |-> reads.n]
         /\ pc' = next.pc
         /\ ret' = next.ret
         /\ w' = IF next.pc = "probe"
                 THEN waitUntilInit(FlowMaxAttempts, UntilIntervalMillis) ELSE w
    /\ UNCHANGED <<pend, op, retKey, retWrap, reads, fetch, h>>
    /\ UNCHANGED hvars

createRootKeyProbe ==
    /\ op = "createRootKey" /\ pc = "probe"
    /\ \E r \in ReadResults(kid) :
         LET c == createRootKeyCheck(r)
             ws == waitUntilStep(w, c)
             next == createRootKeyAfterWait(ws.result) IN
         /\ w' = ws
         /\ h' = Recorded(c, w.calls + 1)
         /\ reads' = ReadRecorded(r)
         /\ pc' = IF ws.result = Running THEN "sleep" ELSE next.pc
         /\ ret' = IF ws.result = Running THEN Running ELSE next.ret
    /\ UNCHANGED <<keys, pend, op, kid, retKey, retWrap, mut, fetch>>
    /\ UNCHANGED hvars

\* api.EncryptionKey.CreatePublicWrappingKey, once, then return.
createRootKeyFetch ==
    /\ op = "createRootKey" /\ pc = "fetch"
    /\ \E e \in WrappingKeyResults(kid) :
         /\ fetch' = [n |-> fetch.n + 1, err |-> e, atWait |-> w.result]
         /\ ret' = e
         /\ retKey' = IF e = Nil THEN kid ELSE NoKey
         /\ retWrap' = (e = Nil)
    /\ pc' = "done"
    /\ UNCHANGED <<keys, pend, op, kid, w, mut, reads, h>>
    /\ UNCHANGED hvars

\* ------------------------------------------- the remote's own transitions
\* A created key becomes visible to reads.
RemoteVisible ==
    /\ \E k \in KeyIds :
         /\ keys[k] = "creating"
         /\ keys' = [keys EXCEPT ![k] = "pre-activation"]
    /\ UNCHANGED <<pend, op, pc, kid, w, ret, retKey, retWrap, mut, reads, fetch, h>>
    /\ UNCHANGED hvars

\* An imported key becomes active; the key it replaces is deactivated.
RemoteActivate ==
    /\ \E k \in KeyIds :
         /\ pend[k] = "activate" /\ keys[k] = "pre-activation"
         /\ keys' = [j \in KeyIds |->
                       IF j = k THEN "active"
                       ELSE IF keys[j] = "active" THEN "deactivated" ELSE keys[j]]
         /\ pend' = [pend EXCEPT ![k] = ""]
    /\ UNCHANGED <<op, pc, kid, w, ret, retKey, retWrap, mut, reads, fetch, h>>
    /\ UNCHANGED hvars

\* A deleted key is destroyed.
RemoteDestroy ==
    /\ \E k \in KeyIds :
         /\ pend[k] = "destroy" /\ keys[k] \in ReportedStates
         /\ keys' = [keys EXCEPT ![k] = "destroyed"]
         /\ pend' = [pend EXCEPT ![k] = ""]
    /\ UNCHANGED <<op, pc, kid, w, ret, retKey, retWrap, mut, reads, fetch, h>>
    /\ UNCHANGED hvars

\* A destroyed key is purged: reads of it answer not-found from then on.
RemotePurge ==
    /\ \E k \in KeyIds :
         /\ keys[k] = "destroyed"
         /\ keys' = [keys EXCEPT ![k] = "gone"]
    /\ UNCHANGED <<pend, op, pc, kid, w, ret, retKey, retWrap, mut, reads, fetch, h>>
    /\ UNCHANGED hvars

\* ------------------------------------------------ the remote's key list
\* management.PerPage(5).
PerPage == 5

RootKeyType == "customer-provided-root-key"

\* The keys every tenant holds besides customer-provided root keys.
SystemKeys ==
    << [id |-> -1, type |-> "environment-root-key", state |-> "active"],
       [id |-> -2, type |-> "tenant-master-key", state |-> "deactivated"],
       [id |-> -3, type |-> "tenant-master-key", state |-> "deactivated"],
       [id |-> -4, type |-> "tenant-master-key", state |-> "active"] >>

RECURSIVE RootKeysFrom(_)
\* The customer-provided root keys a list shows, oldest (lowest id) first.
RootKeysFrom(k) ==
    IF k > MaxKeys THEN <<>>
    ELSE (IF keys[k] \in ReportedStates
          THEN <<[id |-> k, type |-> RootKeyType, state |-> keys[k]]>>
          ELSE <<>>) \o RootKeysFrom(k + 1)

ListedKeys == SystemKeys \o RootKeysFrom(1)

Min(a, b) == IF a <= b THEN a ELSE b

\* List(ctx, Page(p), PerPage(5)): a failure, or the page and HasNext().
ListResults(p) ==
    {[err |-> ErrOther, keys |-> <<>>, hasNext |-> FALSE]}
    \cup {[err |-> Nil,
           keys |-> SubSeq(ListedKeys, p * PerPage + 1,
                           Min((p + 1) * PerPage, Len(ListedKeys))),
           hasNext |-> (p + 1) * PerPage < Len(ListedKeys)]}

\* Rekey(ctx): rotates the tenant master key; customer-provided root keys
\* are not touched.
RekeyResults == {Nil, ErrOther}

\* --------------------------------------------- helpers of the handlers
\* getKeyByTypeAndState(keyType, keyState, keys): the first key of the list
\* with that type and state (id NoKey stands for nil).
NoRootKey == [id |-> NoKey, type |-> "", state |-> ""]

RECURSIVE getKeyByTypeAndState(_, _, _)
getKeyByTypeAndState(keyType, keyState, ks) ==
    IF ks = <<>> THEN NoRootKey
    ELSE IF Head(ks).type = keyType /\ Head(ks).state = keyState THEN Head(ks)
    ELSE getKeyByTypeAndState(keyType, keyState, Tail(ks))

\* flattenCustomerProvidedRootKey(data, rootKey, wrappingKey): the block with
\* the key's id and state, the wrapping key when one is given and otherwise
\* the one data holds, and data's wrapped_key.
flattenCustomerProvidedRootKey(data, rootKey, wrappingKey) ==
    [data EXCEPT !.count = 1,
                 !.key_id = rootKey.id,
                 !.kstate = rootKey.state,
                 !.pwk = IF wrappingKey # NoKey THEN wrappingKey ELSE data.pwk]

RECURSIVE flattenEncryptionKeys(_)
\* flattenEncryptionKeys(keys): one entry per key, in order.
flattenEncryptionKeys(ks) ==
    IF ks = <<>> THEN <<>>
    ELSE <<Head(ks).id>> \o flattenEncryptionKeys(Tail(ks))

\* ------------------------------------------------ Terraform's ResourceData
\* What data.Get answers at the start of create/update: the configured
\* attributes from the plan, the computed ones from the saved state.
Planned(s, c) ==
    [NoData EXCEPT !.rot = c.rot,
                   !.count = IF c.block THEN 1 ELSE 0,
                   !.key_id = s.key_id,
                   !.kstate = s.kstate,
                   !.pwk = s.pwk,
                   !.wrapped = c.block /\ c.wrapped]

\* What data.Get answers at the start of read and delete: the saved state.
Stored(s) ==
    [NoData EXCEPT !.rot = s.rot, !.count = s.count, !.key_id = s.key_id,
                   !.kstate = s.kstate, !.pwk = s.pwk, !.wrapped = s.wrapped]

\* The state Terraform saves from a handler's data: a block that is gone
\* takes its attributes with it.
Saved(data, isTainted) ==
    IF data.count = 0
    THEN [NoState EXCEPT !.exists = TRUE, !.tainted = isTainted, !.rot = data.rot]
    ELSE [exists |-> TRUE, tainted |-> isTainted, rot |-> data.rot, count |-> 1,
          key_id |-> data.key_id, kstate |-> data.kstate, pwk |-> data.pwk,
          wrapped |-> data.wrapped]

\* data.HasChange("customer_provided_root_key"): the configured part of the
\* block differs from the saved one.
BlockChanged(s, c) ==
    \/ (s.count = 1) # c.block
    \/ (c.block /\ s.wrapped # c.wrapped)

\* What updateEncryptionKeyManager reads on entry (lines 158, 167-173, 184-187).
Inputs(s, c, isNew) ==
    [isNew |-> isNew,
     rotChanged |-> s.rot # c.rot,
     blockChanged |-> BlockChanged(s, c),
     oldCount |-> s.count,
     newCount |-> IF c.block THEN 1 ELSE 0,
     rootKeyID |-> s.key_id,
     rootKeyState |-> s.kstate,
     publicWrappingKey |-> s.pwk,
     blockPresent |-> c.block,
     wrappedKey |-> c.block /\ c.wrapped,
     keyRotationID |-> c.rot]

ErrWrappedKeyEarly == "wrapped_key before public_wrapping_key"

\* ------------------------------------- updateEncryptionKeyManager's decisions
\* Variant: the new value of key_rotation_id is not looked at.
updateNeedsRekeyAnyValue(i) == ~i.isNew /\ i.rotChanged

\* Lines 158-160: an existing resource whose key_rotation_id changed to a
\* non-empty value is rekeyed.
updateNeedsRekey(i) ==
    ~i.isNew /\ i.rotChanged /\ i.keyRotationID # NoRotation

\* Line 167.
updateTouchesRootKey(i) == i.isNew \/ i.blockChanged

\* Variant: the stored state of the key is not looked at.
updateShouldImportAnyState(i) ==
    i.rootKeyID # NoKey /\ i.publicWrappingKey # NoKey

\* Line 189.
updateShouldImport(i) ==
    /\ i.rootKeyID # NoKey
    /\ i.rootKeyState = "pre-activation"
    /\ i.publicWrappingKey # NoKey

\* Line 193.
updateRejectsWrappedKey(i) == i.rootKeyID = NoKey \/ i.publicWrappingKey = NoKey

\* Variant: the old count of the block is not looked at.
updateShouldCreateAnyOldCount(i) ==
    i.rootKeyID = NoKey \/ i.newCount = 1

\* Line 201.
updateShouldCreate(i) ==
    i.rootKeyID = NoKey \/ (i.oldCount = 0 /\ i.newCount = 1)

\* Lines 199-207: create a root key, or go on to the final read.
updateCreateStep(i) == IF updateShouldCreate(i) THEN "create" ELSE "list"

\* Variant: with the block absent removeKey is called whatever key_id holds.
updateRootKeyStepAlwaysRemove(i) ==
    IF ~updateTouchesRootKey(i) THEN "list"
    ELSE IF ~i.blockPresent THEN "remove"
    ELSE IF i.wrappedKey
    THEN (IF updateShouldImport(i) THEN "import"
          ELSE IF updateRejectsWrappedKey(i) THEN "reject"
          ELSE updateCreateStep(i))
    ELSE updateCreateStep(i)

\* Lines 167-208: the root-key step of this update.
updateRootKeyStep(i) ==
    IF ~updateTouchesRootKey(i) THEN "list"
    ELSE IF ~i.blockPresent
    THEN (IF i.rootKeyID # NoKey THEN "remove" ELSE "list")
    ELSE IF i.wrappedKey
    THEN (IF updateShouldImport(i) THEN "import"
          ELSE IF updateRejectsWrappedKey(i) THEN "reject"
          ELSE updateCreateStep(i))
    ELSE updateCreateStep(i)

\* Lines 158-167: the first step of this update.
updateFirstStep(i) == IF updateNeedsRekey(i) THEN "rekey" ELSE updateRootKeyStep(i)

\* Variant: the update goes on whatever Rekey returned.
updateAfterRekeyIgnoreErr(err, i) == updateRootKeyStep(i)

\* Lines 161-166: after Rekey returned err.
updateAfterRekey(err, i) == IF err # Nil THEN "fail" ELSE updateRootKeyStep(i)

\* Lines 177-180: after removeKey returned err.
updateAfterRemoveKey(err) == IF err # Nil THEN "fail" ELSE "list"

\* Lines 190-197: after importWrappedKey returned err.
updateAfterImportWrappedKey(err, i) ==
    IF err # Nil THEN "fail" ELSE updateCreateStep(i)

\* Lines 202-207: after createRootKey returned err.
updateAfterCreateRootKey(err) == IF err # Nil THEN "fail" ELSE "list"

\* Lines 253-258: deleteEncryptionKeyManager removes the stored key, if any.
deleteFirstStep(rootKeyID) == IF rootKeyID # NoKey THEN "remove" ELSE "return"

\* Variant: an active key is preferred to one in pre-activation.
readSelectRootKeyActiveFirst(ks) ==
    LET act == getKeyByTypeAndState(RootKeyType, "active", ks) IN
    IF act.id # NoKey THEN act
    ELSE getKeyByTypeAndState(RootKeyType, "pre-activation", ks)

\* Lines 233-238: the pre-activation root key if there is one, else the
\* active one.
readSelectRootKey(ks) ==
    LET pre == getKeyByTypeAndState(RootKeyType, "pre-activation", ks) IN
    IF pre.id # NoKey THEN pre
    ELSE getKeyByTypeAndState(RootKeyType, "active", ks)

\* Lines 231-247: what readEncryptionKeyManager sets once the list is read.
readFinish(data, ks) ==
    LET rootKey == readSelectRootKey(ks)
        d1 == IF data.count > 0 /\ rootKey.id # NoKey
              THEN [flattenCustomerProvidedRootKey(data, rootKey, NoKey)
                      EXCEPT !.rootSetByRead = TRUE]
              ELSE data
    IN [d1 EXCEPT !.encryption_keys = flattenEncryptionKeys(ks),
                  !.keysSet = TRUE]

\* ------------------------------------------------------ handler plumbing
FlowVarsUnchanged ==
    UNCHANGED <<op, pc, kid, w, ret, retKey, retWrap, mut, reads, fetch, h>>

\* The flow's frame is gone once the handler has its results.
FlowReturned ==
    /\ op' = "none" /\ pc' = "idle" /\ kid' = NoKey /\ w' = NoWait
    /\ ret' = Nil /\ retKey' = NoKey /\ retWrap' = FALSE
    /\ mut' = NoMut /\ reads' = NoReads /\ fetch' = NoFetch /\ h' = NoHist

\* The handler moves to its next step: a flow it calls, the list loop, or
\* its return (with error e, with the wrapped_key error, or with nil).
Enter(step, rootKeyID, e) ==
    /\ hpc' = IF step \in {"fail", "reject", "return"} THEN "done" ELSE step
    /\ herr' = CASE step = "fail" -> e
                 [] step = "reject" -> ErrWrappedKeyEarly
                 [] step = "return" -> Nil
                 [] OTHER -> Running
    /\ CASE step = "remove" ->
              Fresh("removeKey", rootKeyID, "mutate") /\ w' = NoWait
         [] step = "import" ->
              Fresh("importWrappedKey", rootKeyID, "mutate") /\ w' = NoWait
         [] step = "create" ->
              Fresh("createRootKey", NoKey, "mutate") /\ w' = NoWait
         [] OTHER -> FlowReturned
    /\ page' = 0
    /\ acc' = <<>>

\* The calls a finished flow made: its mutation, its wait, its fetch.
FlowCalls(mutation) ==
    (IF mut.n > 0 THEN <<[op |-> mutation, err |-> mut.err]>> ELSE <<>>)
    \o (IF reads.n > 0 THEN <<[op |-> "Read", err |-> w.result]>> ELSE <<>>)
    \o (IF fetch.n > 0
        THEN <<[op |-> "CreatePublicWrappingKey", err |-> fetch.err]>> ELSE <<>>)

Configs ==
    {c \in [rot : RotationIds, block : BOOLEAN, wrapped : BOOLEAN] :
        c.wrapped => c.block}

HandlerIdle == hpc = "idle"

Next ==
    \/ waitUntilCall \/ waitUntilProbe \/ Sleep
    \/ removeKeyCall \/ removeKeyDelete \/ removeKeyProbe
    \/ importWrappedKeyCall \/ importWrappedKeyImport \/ importWrappedKeyProbe
    \/ createRootKeyCall \/ createRootKeyCreate \/ createRootKeyProbe
    \/ createRootKeyFetch
    \/ RemoteVisible \/ RemoteActivate \/ RemoteDestroy \/ RemotePurge

Spec == Init /\ [][Next]_vars

\* ------------------------------------------------------ the handlers
\* createEncryptionKeyManager: SetId, then updateEncryptionKeyManager on a
\* new resource.
createEncryptionKeyManager ==
    /\ HandlerIdle /\ applies < MaxApplies /\ ~st.exists
    /\ \E c \in Configs :
         LET i == Inputs(NoState, c, TRUE) IN
         /\ cfg' = c
         /\ in' = i
         /\ d' = Planned(NoState, c)
         /\ Enter(updateFirstStep(i), i.rootKeyID, Nil)
    /\ applies' = applies + 1
    /\ hop' = "create"
    /\ calls' = <<>>
    /\ created' = {}
    /\ UNCHANGED <<listed, keys, pend, st, imported, ds>>

\* updateEncryptionKeyManager on an existing resource whose plan has a change.
updateEncryptionKeyManager ==
    /\ HandlerIdle /\ applies < MaxApplies /\ st.exists /\ ~st.tainted
    /\ \E c \in Configs :
         LET i == Inputs(st, c, FALSE) IN
         /\ i.rotChanged \/ i.blockChanged
         /\ cfg' = c
         /\ in' = i
         /\ d' = Planned(st, c)
         /\ Enter(updateFirstStep(i), i.rootKeyID, Nil)
    /\ applies' = applies + 1
    /\ hop' = "update"
    /\ calls' = <<>>
    /\ created' = {}
    /\ UNCHANGED <<listed, keys, pend, st, imported, ds>>

\* api.EncryptionKey.Rekey.
updateRekey ==
    /\ hop = "update" /\ hpc = "rekey"
    /\ \E e \in RekeyResults :
         /\ calls' = Append(calls, [op |-> "Rekey", err |-> e])
         /\ Enter(updateAfterRekey(e, in), in.rootKeyID, e)
    /\ UNCHANGED <<listed, applies, keys, pend, st, cfg, d, in, hop, created, imported, ds>>

\* removeKey has returned to the update.
updateRemoveKeyReturns ==
    /\ hop \in {"create", "update"} /\ hpc = "remove" /\ pc = "done"
    /\ calls' = calls \o FlowCalls("Delete")
    /\ Enter(updateAfterRemoveKey(ret), in.rootKeyID, ret)
    /\ UNCHANGED <<listed, applies, keys, pend, st, cfg, d, in, hop, created, imported, ds>>

\* importWrappedKey has returned to the update.
updateImportWrappedKeyReturns ==
    /\ hop \in {"create", "update"} /\ hpc = "import" /\ pc = "done"
    /\ calls' = calls \o FlowCalls("ImportWrappedKey")
    /\ imported' = IF mut.n > 0 /\ mut.err = Nil THEN imported \cup {kid}
                   ELSE imported
    /\ Enter(updateAfterImportWrappedKey(ret, in), in.rootKeyID, ret)
    /\ UNCHANGED <<listed, applies, keys, pend, st, cfg, d, in, hop, created, ds>>

\* createRootKey has returned to the update, which sets
\* customer_provided_root_key from the new key and its wrapping key.
updateCreateRootKeyReturns ==
    /\ hop \in {"create", "update"} /\ hpc = "create" /\ pc = "done"
    /\ calls' = calls \o FlowCalls("Create")
    /\ created' = IF mut.n > 0 /\ mut.err = Nil THEN created \cup {kid}
                  ELSE created
    /\ d' = IF ret = Nil
            THEN [flattenCustomerProvidedRootKey(
                      d, [id |-> retKey, type |-> RootKeyType,
                          state |-> "pre-activation"], retKey)
                    EXCEPT !.rootSetByUpdate = TRUE]
            ELSE d
    /\ Enter(updateAfterCreateRootKey(ret), in.rootKeyID, ret)
    /\ UNCHANGED <<listed, applies, keys, pend, st, cfg, in, hop, imported, ds>>

\* readEncryptionKeyManager called by Terraform's refresh.
readEncryptionKeyManager ==
    /\ HandlerIdle /\ applies < MaxApplies /\ st.exists
    /\ cfg' = NoConfig
    /\ in' = NoInput
    /\ d' = Stored(st)
    /\ Enter("list", NoKey, Nil)
    /\ applies' = applies + 1
    /\ hop' = "read"
    /\ calls' = <<>>
    /\ created' = {}
    /\ UNCHANGED <<listed, keys, pend, st, imported, ds>>

\* Variant: the loop goes on without moving to the next page.
readListSamePage ==
    /\ hop \in {"create", "update", "read"} /\ hpc = "list"
    /\ \E r \in ListResults(page) :
         /\ calls' = Append(calls, [op |-> "List", err |-> r.err])
         /\ listed' = Append(listed, [page |-> page, err |-> r.err,
                                      keys |-> r.keys, hasNext |-> r.hasNext])
         /\ IF r.err # Nil
            THEN /\ hpc' = "done" /\ herr' = r.err
                 /\ UNCHANGED <<page, acc, d>>
            ELSE IF r.hasNext
            THEN /\ acc' = acc \o r.keys
                 /\ UNCHANGED <<page, hpc, herr, d>>
            ELSE /\ acc' = acc \o r.keys
                 /\ d' = readFinish(d, acc \o r.keys)
                 /\ hpc' = "done" /\ herr' = Nil
                 /\ UNCHANGED page
    /\ FlowVarsUnchanged
    /\ UNCHANGED <<applies, keys, pend, st, cfg, in, hop, created, imported, ds>>

\* One turn of readEncryptionKeyManager's loop: request the page; on the
\* last page select the root key and set the attributes.
readList ==
    /\ hop \in {"create", "update", "read"} /\ hpc = "list"
    /\ \E r \in ListResults(page) :
         /\ calls' = Append(calls, [op |-> "List", err |-> r.err])
         /\ listed' = Append(listed, [page |-> page, err |-> r.err,
                                      keys |-> r.keys, hasNext |-> r.hasNext])
         /\ IF r.err # Nil
            THEN /\ hpc' = "done" /\ herr' = r.err
                 /\ UNCHANGED <<page, acc, d>>
            ELSE IF r.hasNext
            THEN /\ page' = page + 1
                 /\ acc' = acc \o r.keys
                 /\ UNCHANGED <<hpc, herr, d>>
            ELSE /\ acc' = acc \o r.keys
                 /\ d' = readFinish(d, acc \o r.keys)
                 /\ hpc' = "done" /\ herr' = Nil
                 /\ UNCHANGED page
    /\ FlowVarsUnchanged
    /\ UNCHANGED <<applies, keys, pend, st, cfg, in, hop, created, imported, ds>>

\* deleteEncryptionKeyManager.
deleteEncryptionKeyManager ==
    /\ HandlerIdle /\ applies < MaxApplies /\ st.exists
    /\ cfg' = NoConfig
    /\ in' = [NoInput EXCEPT !.rootKeyID = st.key_id]
    /\ d' = Stored(st)
    /\ Enter(deleteFirstStep(st.key_id), st.key_id, Nil)
    /\ applies' = applies + 1
    /\ hop' = "delete"
    /\ calls' = <<>>
    /\ created' = {}
    /\ UNCHANGED <<listed, keys, pend, st, imported, ds>>

\* removeKey has returned to deleteEncryptionKeyManager, which returns its
\* result.
deleteRemoveKeyReturns ==
    /\ hop = "delete" /\ hpc = "remove" /\ pc = "done"
    /\ calls' = calls \o FlowCalls("Delete")
    /\ Enter(IF ret # Nil THEN "fail" ELSE "return", in.rootKeyID, ret)
    /\ UNCHANGED <<listed, applies, keys, pend, st, cfg, d, in, hop, created, imported, ds>>

\* The handler has returned: Terraform saves the state. A create or update
\* saves its data whether or not it failed (a failed create is tainted), a
\* refresh or destroy that failed leaves the state as it was.
Commit ==
    /\ hpc = "done"
    /\ st' = CASE hop \in {"create", "update"} ->
                    Saved(d, hop = "create" /\ herr # Nil)
               [] hop = "read" ->
                    IF herr = Nil THEN Saved(d, st.tainted) ELSE st
               [] hop = "delete" -> IF herr = Nil THEN NoState ELSE st
               [] OTHER -> st
    /\ hpc' = "idle"
    /\ hop' = "none"
    /\ herr' = Nil
    /\ cfg' = NoConfig /\ d' = NoData /\ in' = NoInput
    /\ calls' = <<>> /\ page' = 0 /\ acc' = <<>> /\ created' = {}
    /\ op' = "none" /\ pc' = "idle" /\ kid' = NoKey /\ w' = NoWait
    /\ ret' = Nil /\ retKey' = NoKey /\ retWrap' = FALSE
    /\ mut' = NoMut /\ reads' = NoReads /\ fetch' = NoFetch /\ h' = NoHist
    /\ ds' = [read |-> "none", provider_version |-> ""]
    /\ listed' = <<>>
    /\ UNCHANGED <<applies, keys, pend, imported>>

\* ------------------------------------------- the framework provider
\* auth0Provider.DataSources: the data sources the provider registers.
DataSources == {}

\* A plan reads data "auth0_provider" with an empty configuration.
dataSourceProviderRead ==
    /\ HandlerIdle
    /\ ds' = IF "auth0_provider" \in DataSources
             THEN [read |-> "ok", provider_version |-> "set"]
             ELSE [read |-> "unknown data source", provider_version |-> ""]
    /\ hop' = "data"
    /\ hpc' = "done"
    /\ herr' = IF "auth0_provider" \in DataSources THEN Nil ELSE ErrOther
    /\ FlowVarsUnchanged
    /\ UNCHANGED <<listed, applies, keys, pend, st, cfg, d, in, calls, page, acc, created,
                   imported>>

\* The remote's own transitions show only in the answers to remote calls:
\* those it takes between two handler calls are taken here at the start of
\* the next one, before its first remote call.
remoteTransition ==
    /\ hpc \notin {"idle", "done"}
    /\ \/ RemoteVisible
       \/ RemoteActivate
       \/ RemoteDestroy
       \/ RemotePurge

NextApply ==
    \/ createEncryptionKeyManager \/ updateEncryptionKeyManager
    \/ updateRekey \/ updateRemoveKeyReturns \/ updateImportWrappedKeyReturns
    \/ updateCreateRootKeyReturns
    \/ readEncryptionKeyManager \/ readList
    \/ deleteEncryptionKeyManager \/ deleteRemoveKeyReturns
    \/ Commit
    \/ dataSourceProviderRead
    \/ removeKeyDelete \/ removeKeyProbe
    \/ importWrappedKeyImport \/ importWrappedKeyProbe
    \/ createRootKeyCreate \/ createRootKeyProbe \/ createRootKeyFetch
    \/ Sleep
    \/ remoteTransition

SpecApply == Init /\ [][NextApply]_vars

TypeOK ==
    /\ keys \in [KeyIds -> KeyStates]
    /\ pend \in [KeyIds -> Pending]
    /\ op \in {"none", "waitUntil", "removeKey", "importWrappedKey", "createRootKey"}
    /\ pc \in {"idle", "mutate", "probe", "sleep", "fetch", "done"}
    /\ kid \in KeyIds \cup {NoKey}
    /\ ret \in {Running, Nil, ErrTimeout} \cup ProbeErrors
    /\ w.result \in {Running, Nil, ErrTimeout} \cup ProbeErrors
    /\ retKey \in KeyIds \cup {NoKey}
    /\ retWrap \in BOOLEAN

\* ------------------------------------------------------------ properties
Flows == {"removeKey", "importWrappedKey", "createRootKey"}
Polling == pc \in {"probe", "sleep"} /\ ret = Running /\ w.result = Running

\* C1: when check returns an error on its i-th invocation (the earlier ones
\* having returned done=false), waitUntil returns that same error and check
\* has been invoked exactly i times, never again afterwards; in removeKey a
\* read that fails outright on the i-th probe is returned after i reads.
C1_ErrorAborts ==
    /\ h.errAt # 0 =>
         /\ w.result = h.errVal
         /\ ret = h.errVal
         /\ pc = "done"
         /\ w.calls = h.errAt
         /\ h.nFalse = h.errAt - 1
    /\ (op = "removeKey" /\ reads.lastErr = ErrOther) =>
         /\ ret = ErrOther
         /\ pc = "done"
         /\ w.calls = reads.n
         /\ h.errAt = reads.n

\* An error on the third probe of a removeKey wait ended the operation.
C1_Witness ==
    /\ op = "removeKey" /\ pc = "done"
    /\ h.errAt = 3 /\ h.errVal = ErrOther /\ ret = ErrOther /\ reads.n = 3

\* C2: check is never invoked more than maxAttempts times in one waitUntil
\* call, and when every invocation returns (done=false, no error) the call
\* ends with the timeout error after exactly maxAttempts invocations.
C2_TimeoutAfterMaxAttempts ==
    /\ w.calls <= w.max
    /\ (w.max >= 1 /\ h.nFalse = w.calls /\ w.calls = w.max) =>
         (w.result = ErrTimeout /\ ret = ErrTimeout /\ pc = "done")
    /\ (h.nFalse = w.calls /\ w.calls < w.max) => w.result = Running
    /\ w.result = ErrTimeout => (w.calls = w.max /\ h.nFalse = w.max)

\* A direct call with maxAttempts = 4 timed out after four invocations.
C2_Witness ==
    /\ op = "waitUntil" /\ pc = "done"
    /\ w.max = 4 /\ w.calls = 4 /\ h.nFalse = 4 /\ ret = ErrTimeout

\* C3: when check returns done=false k-1 times and then done=true,
\* waitUntil returns nil after exactly k invocations with one sleep between
\* each two consecutive invocations (k-1 sleeps, none when k = 1), whatever
\* calls came before this one.
C3_SuccessAfterK ==
    /\ (h.trueAt # 0 /\ h.errAt = 0) =>
         /\ w.result = Nil
         /\ w.calls = h.trueAt
         /\ h.nFalse = h.trueAt - 1
         /\ w.sleeps = h.trueAt - 1
    /\ w.result = Nil => (h.trueAt = w.calls /\ h.trueAt >= 1)
    /\ (pc = "probe" /\ op # "none") => w.sleeps = w.calls
    /\ pc = "sleep" => w.sleeps = w.calls - 1

\* maxAttempts = 5, intervalMillis = 10, done on the fourth invocation:
\* success after four invocations and three sleeps.
C3_Witness ==
    /\ op = "waitUntil" /\ pc = "done"
    /\ w.max = 5 /\ w.interval = 10
    /\ h.trueAt = 4 /\ w.calls = 4 /\ w.sleeps = 3 /\ ret = Nil

\* C4: in removeKey, once Delete has succeeded, the wait finishes with
\* success both when a probe read fails with not-found and when it succeeds
\* with state destroyed; not-found is never returned to the caller.
C4_NotFoundEndsDeletion ==
    (op = "removeKey" /\ mut.n = 1 /\ mut.err = Nil /\ reads.n > 0) =>
        /\ reads.lastErr = ErrNotFound => (ret = Nil /\ pc = "done")
        /\ (reads.lastErr = Nil /\ reads.lastState = "destroyed") =>
             (ret = Nil /\ pc = "done")
        /\ ret # ErrNotFound

\* C5: in createRootKey a probe read that fails with not-found is not-yet-done
\* and polling goes on (to the end of the budget, never returning not-found),
\* a read that fails otherwise ends the operation with that error, and a
\* read that succeeds ends the wait with success.
C5_CreateVisibility ==
    (op = "createRootKey" /\ reads.n > 0) =>
        /\ (reads.lastErr = ErrNotFound /\ reads.n < w.max) => Polling
        /\ (reads.lastErr = ErrNotFound /\ reads.n = w.max) =>
             (ret = ErrTimeout /\ pc = "done")
        /\ reads.lastErr = ErrOther =>
             (w.result = ErrOther /\ ret = ErrOther /\ pc = "done")
        /\ reads.lastErr = Nil =>
             (w.result = Nil /\ pc \in {"fetch", "done"} /\ w.calls = reads.n)
        /\ w.result # ErrNotFound

\* Not-found on the first two probes, then a read that succeeds: the wait
\* succeeded on the third probe.
C5_Witness ==
    /\ op = "createRootKey"
    /\ reads.n = 3 /\ reads.notFound = 2 /\ reads.lastErr = Nil
    /\ w.result = Nil /\ w.calls = 3

\* C6: waitUntil returns the timeout error only after maxAttempts
\* invocations that all returned done=false without error, a probe error
\* only when some invocation returned exactly that error, nil only when an
\* invocation returned done=true, and every error check returns is returned.
C6_OutcomesDistinct ==
    /\ w.result = ErrTimeout =>
         (h.errAt = 0 /\ h.trueAt = 0 /\ h.nFalse = w.max /\ w.calls = w.max)
    /\ w.result \in ProbeErrors => (h.errAt = w.calls /\ h.errVal = w.result)
    /\ w.result = Nil => (h.errAt = 0 /\ h.trueAt = w.calls)
    /\ h.errAt # 0 => w.result = h.errVal

\* A wait in which check failed with not-found after two not-yet answers.
C6_Witness ==
    /\ op = "waitUntil" /\ pc = "done"
    /\ h.nFalse = 2 /\ h.errAt = 3 /\ ret = ErrNotFound

\* C7: with maxAttempts = 1 and check returning done=false there is exactly
\* one invocation and no sleep before the timeout error; in general no sleep
\* follows the last failed attempt.
C7_SingleAttemptNoSleep ==
    /\ (w.max = 1 /\ h.nFalse >= 1) =>
         /\ w.calls = 1
         /\ w.sleeps = 0
         /\ w.result = ErrTimeout
         /\ pc = "done"
    /\ w.result = ErrTimeout => w.sleeps = w.max - 1

\* A direct call with maxAttempts = 1 whose only probe answered not yet.
C7_Witness ==
    /\ op = "waitUntil" /\ pc = "done"
    /\ w.max = 1 /\ h.nFalse = 1 /\ w.calls = 1 /\ w.sleeps = 0
    /\ ret = ErrTimeout

\* C8: importWrappedKey returns success only if ImportWrappedKey succeeded
\* and a later probe read of the key returned state active; a read that
\* returns another state keeps the wait polling, a read error ends it with
\* that error.
C8_ImportUntilActive ==
    op = "importWrappedKey" =>
        /\ ret = Nil =>
             /\ mut.n = 1 /\ mut.err = Nil /\ mut.atReads = 0
             /\ reads.active /\ reads.lastErr = Nil /\ reads.lastState = "active"
        /\ (reads.n > 0 /\ reads.n < w.max /\ reads.lastErr = Nil
              /\ reads.lastState # "active") => Polling
        /\ (reads.n > 0 /\ reads.lastErr # Nil) =>
             (ret = reads.lastErr /\ pc = "done")

\* The key was still pre-activation on the first probe and active on the
\* second.
C8_Witness ==
    /\ op = "importWrappedKey" /\ pc = "done" /\ ret = Nil
    /\ reads.n = 2 /\ h.nFalse = 1 /\ reads.active

\* C9: createRootKey calls CreatePublicWrappingKey at most once, only after
\* the visibility wait returned success (never after a failed Create, a probe
\* error or a timeout), exactly once when the wait succeeded, and returns
\* its error without another call when it fails.
C9_WrappingKeyFetchedOnce ==
    op = "createRootKey" =>
        /\ fetch.n <= 1
        /\ fetch.n = 1 =>
             /\ mut.n = 1 /\ mut.err = Nil
             /\ fetch.atWait = Nil /\ w.result = Nil
             /\ pc = "done"
        /\ (mut.err # Nil \/ w.result \in ProbeErrors \cup {ErrTimeout}) =>
             fetch.n = 0
        /\ (pc = "done" /\ w.result = Nil) => fetch.n = 1
        /\ (fetch.n = 1 /\ fetch.err # Nil) =>
             (ret = fetch.err /\ retKey = NoKey /\ ~retWrap)
        /\ (pc = "done" /\ ret = Nil) =>
             (fetch.n = 1 /\ fetch.err = Nil /\ retKey = kid /\ retWrap)

\* The wait succeeded, the one wrapping-key call failed, and the operation
\* returned that failure.
C9_Witness ==
    /\ op = "createRootKey" /\ pc = "done"
    /\ w.result = Nil /\ fetch.n = 1 /\ fetch.err = ErrOther /\ ret = ErrOther

\* C10: each flow issues its remote mutation exactly once, before any probe
\* read, and when the mutation fails the flow returns that error without
\* reading.
C10_MutationOnceFirst ==
    op \in Flows =>
        /\ mut.n <= 1
        /\ pc # "mutate" => mut.n = 1
        /\ mut.atReads = 0
        /\ reads.n > 0 => (mut.n = 1 /\ mut.err = Nil)
        /\ (mut.n = 1 /\ mut.err # Nil) =>
             (ret = mut.err /\ pc = "done" /\ reads.n = 0 /\ w.calls = 0)

\* A Delete that failed: removeKey returned its error and read nothing.
C10_Witness ==
    /\ op = "removeKey" /\ pc = "done"
    /\ mut.n = 1 /\ mut.err = ErrNotFound /\ ret = ErrNotFound /\ reads.n = 0


\* ------------------------------------------------- the handlers' claims
\* The handler has called the remote operation o (flows report at return).
Issued(o) == \E n \in 1..Len(calls) : calls[n].op = o
IssuedCount(o) == Cardinality({n \in 1..Len(calls) : calls[n].op = o})
Returned == hpc = "done" /\ hop \in {"create", "update"}

C12_WrappedKeyEarlyRejected ==
    (Returned /\ cfg.block /\ cfg.wrapped
       /\ (st.key_id = NoKey \/ st.pwk = NoKey))
      => (herr # Nil /\ ~Issued("ImportWrappedKey") /\ ~Issued("Create"))

\* C13: an update or create whose configuration has the block without
\* wrapped_key, while no key_id is saved or the block is new, issues exactly
\* one Create, and when it succeeds the state holds the created key's
\* public wrapping key.
C13_NewBlockCreatesOnce ==
    (Returned /\ cfg.block /\ ~cfg.wrapped
       /\ (st.key_id = NoKey \/ st.count = 0))
      => /\ IssuedCount("Create") = 1
         /\ herr = Nil => (d.pwk # NoKey /\ d.pwk \in created)

C15_ProviderDataSourceRead ==
    (hop = "data" /\ hpc = "done")
      => (herr = Nil /\ ds.read = "ok" /\ ds.provider_version # "")

\* The customer-provided root keys in state s among the keys the read listed.
ListedRootKeys(s) ==
    {acc[n].id : n \in {m \in 1..Len(acc) :
                          acc[m].type = RootKeyType /\ acc[m].state = s}}

\* The read has run to its end, with or without a block in its data.
ReadDone == hpc = "done" /\ herr = Nil /\ hop \in {"create", "update", "read"}
ReadHadBlock == IF hop = "read" THEN st.count = 1 ELSE cfg.block

\* C16: when its data has a customer_provided_root_key block, the read
\* records a listed customer-provided root key in pre-activation if there is
\* one (also when an active one is listed too), otherwise a listed active
\* one, otherwise nothing; without a block it does not write the block.
C16_ReadSelectsRootKey ==
    ReadDone =>
      /\ (ReadHadBlock /\ ListedRootKeys("pre-activation") # {})
           => /\ d.rootSetByRead /\ d.kstate = "pre-activation"
              /\ d.key_id \in ListedRootKeys("pre-activation")
      /\ (ReadHadBlock /\ ListedRootKeys("pre-activation") = {}
            /\ ListedRootKeys("active") # {})
           => /\ d.rootSetByRead /\ d.kstate = "active"
              /\ d.key_id \in ListedRootKeys("active")
      /\ (ReadHadBlock /\ ListedRootKeys("pre-activation") = {}
            /\ ListedRootKeys("active") = {})
           => ~d.rootSetByRead
      /\ ~ReadHadBlock => (~d.rootSetByRead /\ d.count = 0)

C16_Witness ==
    /\ ReadDone /\ ReadHadBlock
    /\ ListedRootKeys("pre-activation") # {} /\ ListedRootKeys("active") # {}
    /\ d.rootSetByRead /\ d.kstate = "pre-activation"

\* The update's Rekey call failed, so the update returned there.
RekeyFailed == \E n \in 1..Len(calls) : calls[n].op = "Rekey" /\ calls[n].err # Nil

\* C17 as stated: with the block absent from the configuration an update
\* issues Delete exactly when a key_id is saved, and no Create or
\* ImportWrappedKey; the delete handler issues Delete only when a key_id is
\* saved and otherwise succeeds with no remote call.
C17_AbsentBlockDeletesIff ==
    /\ (Returned /\ ~cfg.block)
         => /\ Issued("Delete") <=> st.key_id # NoKey
            /\ ~Issued("Create") /\ ~Issued("ImportWrappedKey")
    /\ (hop = "delete" /\ hpc = "done")
         => /\ Issued("Delete") => st.key_id # NoKey
            /\ st.key_id = NoKey => (herr = Nil /\ calls = <<>>)

\* C17, amended: with the block absent from the configuration an update
\* whose Rekey call (if any) did not fail issues one Delete, for the saved
\* key, exactly when a key_id is saved; no such update issues Create or
\* ImportWrappedKey; the delete handler issues Delete, for the saved key,
\* exactly when a key_id is saved and otherwise succeeds with no remote call.
C17_AbsentBlockDeletes ==
    /\ (Returned /\ ~cfg.block)
         => /\ Issued("Delete") => (st.key_id # NoKey /\ ~RekeyFailed)
            /\ (st.key_id # NoKey /\ ~RekeyFailed) => IssuedCount("Delete") = 1
            /\ ~Issued("Create") /\ ~Issued("ImportWrappedKey")
    /\ (hop = "delete" /\ hpc = "done")
         => /\ st.key_id # NoKey => IssuedCount("Delete") = 1
            /\ st.key_id = NoKey => (herr = Nil /\ calls = <<>>)
    /\ (hop # "none" /\ op = "removeKey")
         => (kid = st.key_id /\ kid # NoKey)

C17_Witness ==
    /\ hop = "update" /\ hpc = "done" /\ herr = Nil
    /\ ~cfg.block /\ st.key_id # NoKey
    /\ Issued("Rekey") /\ IssuedCount("Delete") = 1
    /\ keys[st.key_id] \in {"destroyed", "gone"}

\* C18: an update with the block in the configuration while the saved state
\* holds a key_id and the state active issues no Create, no ImportWrappedKey
\* and no Delete, with wrapped_key configured or not.
C18_ActiveKeyUntouched ==
    /\ (hop = "update" /\ cfg.block /\ st.key_id # NoKey /\ st.kstate = "active")
         => /\ op = "none"
            /\ ~Issued("Create") /\ ~Issued("ImportWrappedKey")
            /\ ~Issued("Delete")

C18_Witness ==
    /\ hop = "update" /\ hpc = "done" /\ herr = Nil
    /\ cfg.block /\ ~cfg.wrapped /\ st.wrapped
    /\ st.key_id # NoKey /\ st.kstate = "active"
    /\ calls = <<[op |-> "List", err |-> Nil]>>

\* C19: in a create or update, Rekey (if any) is the first remote call, the
\* calls of the root-key step come next and the List calls last; a call that
\* returned an error is the last call, the handler returns that error, and
\* then neither encryption_keys nor customer_provided_root_key was written
\* by the read.
C19_OrderAndFirstError ==
    hop \in {"create", "update"} =>
      /\ \A n \in 1..Len(calls) :
           /\ calls[n].op = "Rekey" => n = 1
           /\ \A m \in 1..Len(calls) :
                (m < n /\ calls[m].op = "List") => calls[n].op = "List"
           /\ calls[n].err # Nil
                => (n = Len(calls) /\ hpc = "done" /\ herr = calls[n].err)
      /\ op # "none" => ~Issued("List")
      /\ (hpc = "done" /\ herr # Nil)
           => /\ ~d.keysSet /\ ~d.rootSetByRead
              /\ herr = ErrWrappedKeyEarly
                   \/ (calls # <<>> /\ calls[Len(calls)].err = herr)
      /\ (hpc = "done" /\ herr = Nil)
           => (d.keysSet /\ calls # <<>> /\ calls[Len(calls)].op = "List")

C19_Witness ==
    /\ hop = "update" /\ hpc = "done" /\ herr # Nil
    /\ Len(calls) > 1
    /\ calls[1] = [op |-> "Rekey", err |-> Nil]
    /\ calls[Len(calls)].err = herr
    /\ ~Issued("List") /\ ~d.keysSet

\* C20: when a create or update returns, with or without an error, every
\* key its Create call created on the remote has its id in the key_id the
\* handler leaves for the state.
C20_CreatedKeyTracked ==
    Returned => \A k \in created : d.count = 1 /\ d.key_id = k

\* C21: when a create or update that created a root key returns with
\* success, the key_id it leaves for the state is the id of the key it
\* created, whatever other keys the final read listed.
C21_CreatedKeyIsStored ==
    (Returned /\ herr = Nil /\ created # {})
      => (d.count = 1 /\ d.key_id \in created)

RECURSIVE ListedUpTo(_)
\* The keys of the first n answers to List, in the order they came.
ListedUpTo(n) == IF n = 0 THEN <<>> ELSE ListedUpTo(n - 1) \o listed[n].keys

\* The ids of the keys of every answer, in page order.
ListedIds ==
    LET all == ListedUpTo(Len(listed)) IN [m \in 1..Len(all) |-> all[m].id]

\* C22: the read requests page 0, then 1, ... once each, goes on only after
\* a page that reported a next page, stops at the first page that reports
\* none and then records in encryption_keys the keys of all requested pages
\* in page order; a failed request is the last one, its error is returned
\* and neither encryption_keys nor customer_provided_root_key is written.
C22_PagesInOrder ==
    hop \in {"create", "update", "read"} =>
      /\ \A n \in 1..Len(listed) :
           /\ listed[n].page = n - 1
           /\ (n < Len(listed) \/ hpc = "list")
                => (listed[n].err = Nil /\ listed[n].hasNext)
      /\ (hpc = "done" /\ listed # <<>>) =>
           LET last == listed[Len(listed)] IN
           /\ last.err # Nil
                => (herr = last.err /\ ~d.keysSet /\ ~d.rootSetByRead)
           /\ last.err = Nil
                => /\ ~last.hasNext /\ herr = Nil
                   /\ d.keysSet /\ d.encryption_keys = ListedIds
      /\ d.keysSet => (hpc = "done" /\ herr = Nil /\ listed # <<>>)

C22_Witness ==
    /\ hop = "read" /\ hpc = "done" /\ herr = Nil
    /\ Len(listed) > 1
    /\ listed[Len(listed)].page = Len(listed) - 1
    /\ d.keysSet /\ Len(d.encryption_keys) > PerPage
    /\ d.encryption_keys = ListedIds

====
